---- MODULE Spec2Model ----
(***************************************************************************)
(* A model of the DLHub SDK: the publication client (DLHubClient), the     *)
(* pipeline metadata model (PipelineModel) and the parts of the metadata   *)
(* model hierarchy they call (BaseMetadataModel, KerasModel).              *)
(***************************************************************************)
EXTENDS Integers, Sequences, FiniteSets, TLC

\* ------------------------------------------------------------------ bounds
NumUuids == 2
MaxSteps == 2
MaxPathLen == 2
MaxOutputs == 2
NumLogins == 4

\* ------------------------------------------------------------------ values
\* Python's None
None == "None"

\* the strings uuid4() can return
UuidNames == <<"u1", "u2", "u3", "u4">>
Uuids == {UuidNames[i] : i \in 1..NumUuids}

\* model instances: one plain servable and the pipeline (a step of a pipeline
\* may be another pipeline, so both can be handed to add_step)
Servable == "A"
Pipeline == "P"
Objs == {Servable, Pipeline}

Descriptions == {"resize"}
\* the parameters argument of add_step: None (the default) or a dict
ParamValues == {None, "{}"}

\* the names of the stored options: refresh token, access token, expiry time
DLHUB_RT_OPTNAME == "dlhub_rt"
DLHUB_AT_OPTNAME == "dlhub_at"
DLHUB_AT_EXPIRES_OPTNAME == "dlhub_at_expires"
Options == {DLHUB_RT_OPTNAME, DLHUB_AT_OPTNAME, DLHUB_AT_EXPIRES_OPTNAME}

\* the absence of a document
NoDoc == [nodoc |-> TRUE]

\* no KerasModel instance yet
NoModel == [nomodel |-> TRUE]

VARIABLES
    dlhub_id,   \* model instance -> its identifier, or None
    files,      \* model instance -> its file-reference table (logical name -> path)
    steps,      \* PipelineModel.steps
    calls,      \* history: the add_step calls made, with the identifier each saw
    keras,      \* the KerasModel instance create_model returned last, or NoModel
    config,     \* the stored options: option name -> value, None if not stored
    revoked,    \* the tokens the auth service has revoked
    issued,     \* how many token responses the auth service has issued
    held,       \* the pipeline document a caller kept, or NoDoc
    last        \* the outcome of the last operation

vars == <<dlhub_id, files, steps, calls, keras, config, revoked, issued, held, last>>

\* ------------------------------------------------------------ small helpers
SetKey(f, k, v) == [x \in DOMAIN f \cup {k} |-> IF x = k THEN v ELSE f[x]]

Range(s) == {s[i] : i \in DOMAIN s}

Count(s, e) == Cardinality({i \in DOMAIN s : s[i] = e})

\* the outcome record of an operation: the operation and the instance it was
\* called on, the exception it raised ("none" if it returned), the string it
\* returned, the document it returned or submitted, the external calls it
\* made in order, the identifier the instance had before the call, the
\* simplify_paths argument, its other arguments, and the words of the
\* message of the exception
Outcome(op, obj, raised, ret, doc, trace) ==
    [ op |-> op, obj |-> obj, raised |-> raised, ret |-> ret, doc |-> doc,
      trace |-> trace, before |-> None, simplify |-> FALSE, args |-> <<>>,
      message |-> <<>> ]

\* --------------------------------------------------------- BaseMetadataModel
\* the bug of a second assign_uuid() replacing the identifier
assign_uuid_again(id, u) == [raised |-> "none", id |-> u]

\* assign_uuid(): sets a new random UUID as the identifier; fails with the
\* AlreadyAssigned condition (an IdentityError) if an identifier is present.
\* id is the identifier before the call, u the value uuid4() returns.
assign_uuid(id, u) ==
    IF id # None
    THEN [raised |-> "IdentityError", id |-> id]
    ELSE [raised |-> "none", id |-> u]

\* os.path.basename: what follows the last "/" of the path
LastSlash(p) ==
    LET at == {i \in DOMAIN p : p[i] = "/"}
    IN  IF at = {} THEN 0 ELSE CHOOSE i \in at : \A j \in at : j <= i

basename(p) == SubSeq(p, LastSlash(p) + 1, Len(p))

\* the resource-type tag is fixed per specialization; the base class emits
\* "Dataset", a servable "InteractiveResource"
BaseResourceType(m) == IF m = Servable THEN "InteractiveResource" ELSE "Dataset"

\* BaseMetadataModel.to_dict(simplify_paths) of instance m, whose identifier is
\* id and whose file-reference table is ftab: a fresh document; with
\* simplify_paths every path of the copy is cut to its basename
BaseToDict(m, id, ftab, simplify_paths) ==
    [ datacite |-> [ publisher |-> "DLHub",
                     resourceType |-> [resourceTypeGeneral |-> BaseResourceType(m)] ],
      dlhub |-> [ id |-> id,
                  files |-> IF simplify_paths
                            THEN [k \in DOMAIN ftab |-> basename(ftab[k])]
                            ELSE ftab ] ]

\* ------------------------------------------------------------ PipelineModel
\* add_step, lines 32-34: the identifier of a step given as a model instance
\* is read off the instance at the call
StepIdentifier(identifier) ==
    IF identifier.kind = "model" THEN dlhub_id[identifier.ref] ELSE identifier.val

\* add_step, lines 36-42: the block of a step
StepBlock(identifier, description, parameters) ==
    IF parameters # None
    THEN [dlhub_id |-> identifier, description |-> description, parameters |-> parameters]
    ELSE [dlhub_id |-> identifier, description |-> description]

\* the bug of putting the new step first
PrependStep(list, step) == <<step>> \o list

\* add_step, line 43
AppendStep(list, step) == Append(list, step)

\* the bug of keeping the model instance in the step and reading its
\* identifier again when the document is made
PipelineToDictLive(id, ftab, simplify_paths) ==
    LET output == BaseToDict(Pipeline, id, ftab, simplify_paths)
        marked == [output EXCEPT !.datacite.resourceType =
                                     [resourceTypeGeneral |-> "InteractiveResource"]]
        live == [i \in DOMAIN steps |->
                    IF calls[i].identifier.kind = "model"
                    THEN [steps[i] EXCEPT !.dlhub_id = dlhub_id[calls[i].identifier.ref]]
                    ELSE steps[i]]
    IN  SetKey(marked, "pipeline", [steps |-> live])

\* the bug of not handing simplify_paths on to the base class
PipelineToDictUnsimplified(id, ftab, simplify_paths) ==
    LET output == BaseToDict(Pipeline, id, ftab, FALSE)
        marked == [output EXCEPT !.datacite.resourceType =
                                     [resourceTypeGeneral |-> "InteractiveResource"]]
    IN  SetKey(marked, "pipeline", [steps |-> steps])

\* PipelineModel.to_dict: the base document, marked an InteractiveResource,
\* with the pipeline section added. Line 52 puts the list self.steps itself
\* under pipeline.steps; the value here is the document as it reads when it
\* is returned.
PipelineToDict(id, ftab, simplify_paths) ==
    LET output == BaseToDict(Pipeline, id, ftab, simplify_paths)
        marked == [output EXCEPT !.datacite.resourceType =
                                     [resourceTypeGeneral |-> "InteractiveResource"]]
    IN  SetKey(marked, "pipeline", [steps |-> steps])

\* model.to_dict(simplify_paths), dispatched on the class of the instance
to_dict(m, id, simplify_paths) ==
    IF m = Pipeline
    THEN PipelineToDict(id, files[m], simplify_paths)
    ELSE BaseToDict(m, id, files[m], simplify_paths)

\* -------------------------------------------------------------- DLHubClient
\* what servable.get_zip_file(zip_filename) can do: write the zip file, fail
\* before it created the file, or fail with the file already created
ZipOutcomes == {"ok", "fail_before_create", "fail_after_create"}
\* what s3.Object(...).put(...) can do
PutOutcomes == {"ok", "fail"}
\* what requests.post(...) and response.json()['task_id'] can do
PostOutcomes == {"ok", "error"}
\* the values of str(uuid.uuid4()) in _stage_data
DestUuids == {"d1", "d2"}
\* the task identifiers the service answers with
TaskIds == {"task-1"}

\* _stage_data, line 153: os.path.join("s3://", bucket_name, dest_dir, dest_uuid)
StagedPath(dest_uuid) == "s3://" \o "dlhub-anl" \o "/" \o "servables/" \o dest_uuid

\* _stage_data(servable): zip is what get_zip_file does, put what the upload
\* does, dest_uuid the uuid4() of line 138. The temporary file is created and
\* unlinked again at lines 142-144, so it exists at line 158 only if
\* get_zip_file created it; an exception of the try block is printed and
\* swallowed (lines 155-156), one of the finally block propagates.
stage_data(zip, put, dest_uuid) ==
    LET after_mkstemp == TRUE
        after_first_unlink == FALSE
        created == after_first_unlink \/ zip \in {"ok", "fail_after_create"}
        uploaded == zip = "ok" /\ put = "ok"
    IN  [ raised |-> IF created THEN "none" ELSE "FileNotFoundError",
          ret |-> IF created /\ uploaded THEN StagedPath(dest_uuid) ELSE None,
          uploaded |-> uploaded,
          zip_exists |-> IF created THEN FALSE ELSE created,
          trace |-> <<IF zip = "ok" THEN "get_zip_file" ELSE "get_zip_file:error">>
                    \o (IF zip = "ok"
                        THEN <<IF put = "ok" THEN "put" ELSE "put:error">>
                        ELSE <<>>)
                    \o <<IF created THEN "unlink" ELSE "unlink:error">> ]

\* the bug of assigning without looking: an identifier already there is replaced
AssignAlways(id, u) == [raised |-> "none", id |-> u]

\* publish_servable, lines 106-108: a model without identifier is given one
AssignIfUnassigned(id, u) ==
    IF id = None THEN assign_uuid(id, u) ELSE [raised |-> "none", id |-> id]

\* the bug of staging the files before the document is validated
PublishStageFirst(m, id, valid, zip, put, dest_uuid, post, task_id) ==
    LET metadata == to_dict(m, id, TRUE)
        st == stage_data(zip, put, dest_uuid)
        posted == <<IF post = "ok" THEN "post" ELSE "post:error">>
        submitted == [metadata EXCEPT
                         !.dlhub = SetKey(@, "transfer_method", [S3 |-> st.ret])]
    IN  IF st.raised # "none"
        THEN Outcome("publish", m, st.raised, None, NoDoc, <<"stage_data">> \o st.trace)
        ELSE IF ~valid
        THEN Outcome("publish", m, "ValidationError", None, NoDoc,
                     <<"stage_data">> \o st.trace \o <<"validate:error">>)
        ELSE IF post # "ok"
        THEN Outcome("publish", m, "TransportError", None, submitted,
                     <<"stage_data">> \o st.trace \o <<"validate">> \o posted)
        ELSE Outcome("publish", m, "none", task_id, submitted,
                     <<"stage_data">> \o st.trace \o <<"validate">> \o posted)

\* publish_servable, lines 110-126, once the identifier is settled: the
\* outcome of the call. valid is whether the document passes the 'servable'
\* schema (validate_against_dlhub_schema raises if not).
PublishOutcome(m, id, valid, zip, put, dest_uuid, post, task_id) ==
    LET metadata == to_dict(m, id, TRUE)
        st == stage_data(zip, put, dest_uuid)
        posted == <<IF post = "ok" THEN "post" ELSE "post:error">>
        submitted == [metadata EXCEPT
                         !.dlhub = SetKey(@, "transfer_method", [S3 |-> st.ret])]
    IN  IF ~valid
        THEN Outcome("publish", m, "ValidationError", None, NoDoc, <<"validate:error">>)
        ELSE IF st.raised # "none"
        THEN Outcome("publish", m, st.raised, None, NoDoc,
                     <<"validate", "stage_data">> \o st.trace)
        ELSE IF post # "ok"
        THEN Outcome("publish", m, "TransportError", None, submitted,
                     <<"validate", "stage_data">> \o st.trace \o posted)
        ELSE Outcome("publish", m, "none", task_id, submitted,
                     <<"validate", "stage_data">> \o st.trace \o posted)

\* ------------------------------------------------------------------ actions
\* what the outside world does during one publish_servable call; an outcome
\* the call never gets to is fixed, so that each run of the call is listed once
PublishEnvs ==
    { e \in [ valid : BOOLEAN, zip : ZipOutcomes, put : PutOutcomes,
              dest_uuid : DestUuids, post : PostOutcomes, task_id : TaskIds ] :
        /\ ~e.valid => e.zip = "fail_before_create"
        /\ e.zip # "ok" => e.put = "fail"
        /\ e.put # "ok" => e.dest_uuid = "d1"
        /\ e.zip = "fail_before_create" => e.post = "error" }

\* the run in which nothing fails
HappyEnvs == {e \in PublishEnvs : e.valid /\ e.zip = "ok" /\ e.put = "ok" /\ e.post = "ok"}

\* client.publish_servable(m); u is what uuid4() would return
publish_servable(m, u, e) ==
    LET a == AssignIfUnassigned(dlhub_id[m], u)
        out == IF a.raised # "none"
               THEN Outcome("publish", m, a.raised, None, NoDoc, <<>>)
               ELSE PublishOutcome(m, a.id, e.valid, e.zip, e.put, e.dest_uuid,
                                   e.post, e.task_id)
    IN  /\ dlhub_id' = [dlhub_id EXCEPT ![m] = a.id]
        /\ last' = [out EXCEPT !.before = dlhub_id[m]]
        /\ UNCHANGED <<files, steps, calls, keras, config, revoked, issued, held>>

\* m.assign_uuid(); u is what uuid4() returns
AssignUuid(m, u) ==
    LET a == assign_uuid(dlhub_id[m], u)
    IN  /\ dlhub_id' = [dlhub_id EXCEPT ![m] = a.id]
        /\ last' = [Outcome("assign_uuid", m, a.raised, None, NoDoc, <<>>)
                       EXCEPT !.before = dlhub_id[m]]
        /\ UNCHANGED <<files, steps, calls, keras, config, revoked, issued, held>>

\* m.dlhub_id = u: the attribute is public, a caller can reassign it
SetDlhubId(m, u) ==
    /\ dlhub_id' = [dlhub_id EXCEPT ![m] = u]
    /\ last' = [Outcome("set_dlhub_id", m, "none", None, NoDoc, <<>>)
                   EXCEPT !.before = dlhub_id[m]]
    /\ UNCHANGED <<files, steps, calls, keras, config, revoked, issued, held>>

\* the identifier argument of add_step: a string or a model instance
Identifiers ==
    [kind : {"model"}, ref : {Servable}] \cup [kind : {"string"}, val : Uuids]

\* pipeline.add_step(identifier, description, parameters)
add_step(identifier, description, parameters) ==
    /\ Len(steps) < MaxSteps
    /\ steps' = AppendStep(steps, StepBlock(StepIdentifier(identifier),
                                            description, parameters))
    /\ calls' = Append(calls,
                       [ identifier |-> identifier,
                         seen |-> IF identifier.kind = "model"
                                  THEN dlhub_id[identifier.ref] ELSE identifier.val,
                         description |-> description,
                         parameters |-> parameters ])
    /\ last' = Outcome("add_step", Pipeline, "none", None, NoDoc, <<>>)
    /\ UNCHANGED <<dlhub_id, files, keras, config, revoked, issued, held>>

\* m.to_dict(simplify_paths)
ToDict(m, simplify_paths) ==
    /\ last' = [Outcome("to_dict", m, "none", None,
                        to_dict(m, dlhub_id[m], simplify_paths), <<>>)
                   EXCEPT !.simplify = simplify_paths]
    /\ UNCHANGED <<dlhub_id, files, steps, calls, keras, config, revoked, issued, held>>

\* client._stage_data(m)
StageData(m, zip, put, dest_uuid) ==
    LET st == stage_data(zip, put, dest_uuid)
    IN  /\ last' = [Outcome("stage_data", m, st.raised, st.ret, NoDoc, st.trace)
                       EXCEPT !.args = [zip |-> zip, put |-> put,
                                        zip_exists |-> st.zip_exists]]
        /\ UNCHANGED <<dlhub_id, files, steps, calls, keras, config, revoked, issued, held>>

\* ------------------------------------------------------------ specification
\* create_model registers the model file of a servable; a pipeline has no file
InitFiles ==
    [m \in Objs |-> IF m = Servable
                    THEN [model |-> <<"a", "/", "a">>]
                    ELSE <<>>]

Init ==
    /\ dlhub_id = [m \in Objs |-> None]
    /\ files = InitFiles
    /\ steps = <<>>
    /\ calls = <<>>
    /\ keras = NoModel
    /\ config = [o \in Options |-> None]
    /\ revoked = {}
    /\ issued = 0
    /\ held = NoDoc
    /\ last = Outcome("init", Pipeline, "none", None, NoDoc, <<>>)

\* building a pipeline out of a servable whose identifier is assigned,
\* reassigned or left out along the way
Next ==
    \/ \E u \in Uuids, e \in HappyEnvs : publish_servable(Servable, u, e)
    \/ \E u \in Uuids : AssignUuid(Servable, u)
    \/ \E u \in Uuids : SetDlhubId(Servable, u)
    \/ \E i \in Identifiers, d \in Descriptions, p \in ParamValues : add_step(i, d, p)
    \/ \E m \in Objs, s \in BOOLEAN : ToDict(m, s)

Spec == Init /\ [][Next]_vars

\* publishing servables and pipelines, with every outcome of validation,
\* staging and submission
NextPublish ==
    \/ \E m \in Objs, u \in Uuids, e \in PublishEnvs : publish_servable(m, u, e)
    \/ \E m \in Objs, u \in Uuids : AssignUuid(m, u)
    \/ \E m \in Objs, u \in Uuids : SetDlhubId(m, u)

SpecPublish == Init /\ [][NextPublish]_vars

\* staging the files of a model, alone and as part of a publication
NextStage ==
    \/ \E m \in Objs, zip \in ZipOutcomes, put \in PutOutcomes, d \in DestUuids :
          StageData(m, zip, put, d)
    \/ \E m \in Objs, u \in Uuids, e \in PublishEnvs : publish_servable(m, u, e)

SpecStage == Init /\ [][NextStage]_vars

\* ------------------------------------------------ documents a caller keeps
\* to_dict, line 52: the value under pipeline.steps of the returned document
\* is the list object self.steps, not a copy of it
StepsRef == [ref |-> "self.steps"]

\* what a reference to a list reads as
Deref(x) == IF x = StepsRef THEN steps ELSE x

\* the steps a caller reads in the document it kept
HeldSteps == Deref(held.document.pipeline.steps)

\* doc = pipeline.to_dict(simplify_paths), and the caller keeps doc;
\* returned_steps is history: the steps the document had when it was returned,
\* and the changes the caller made to them since
ToDictKeep(simplify_paths) ==
    LET doc == to_dict(Pipeline, dlhub_id[Pipeline], simplify_paths)
    IN  /\ last' = [Outcome("to_dict", Pipeline, "none", None, doc, <<>>)
                       EXCEPT !.simplify = simplify_paths]
        /\ held' = [ document |-> [doc EXCEPT !.pipeline.steps = StepsRef],
                     returned_steps |-> doc.pipeline.steps ]
        /\ UNCHANGED <<dlhub_id, files, steps, calls, keras, config, revoked, issued>>

\* doc['pipeline']['steps'].append(step) on the document the caller kept: the
\* list it appends to is self.steps
DocAppendStep(step) ==
    /\ held # NoDoc
    /\ Len(steps) < MaxSteps
    /\ steps' = Append(Deref(held.document.pipeline.steps), step)
    /\ held' = [held EXCEPT !.returned_steps = Append(@, step)]
    /\ last' = Outcome("doc_append", Pipeline, "none", None, NoDoc, <<>>)
    /\ UNCHANGED <<dlhub_id, files, calls, keras, config, revoked, issued>>

\* building a pipeline while a caller keeps and changes a document of it
NextSnapshot ==
    \/ \E i \in Identifiers, d \in Descriptions, p \in ParamValues : add_step(i, d, p)
    \/ \E s \in BOOLEAN : ToDictKeep(s)
    \/ \E i \in Uuids, d \in Descriptions, p \in ParamValues :
          DocAppendStep(StepBlock(i, d, p))
    \/ \E u \in Uuids : AssignUuid(Servable, u)

SpecSnapshot == Init /\ [][NextSnapshot]_vars

\* ------------------------------------------------------ file references
\* the characters of a path, and the paths a caller registers
PathChars == {"/", "a"}

SeqsUpTo(S, n) == UNION {[1..k -> S] : k \in 1..n}

Paths == SeqsUpTo(PathChars, MaxPathLen)

LogicalNames == {"model", "arch"}

\* m.add_file(logical_name, path): registers the file reference; fails with
\* the DuplicateReference condition if the name is registered with another path
add_file(ftab, logical_name, path) ==
    IF logical_name \in DOMAIN ftab /\ ftab[logical_name] # path
    THEN [raised |-> "DuplicateReferenceError", files |-> ftab]
    ELSE [raised |-> "none", files |-> SetKey(ftab, logical_name, path)]

AddFile(m, logical_name, path) ==
    LET r == add_file(files[m], logical_name, path)
    IN  /\ files' = [files EXCEPT ![m] = r.files]
        /\ last' = Outcome("add_file", m, r.raised, None, NoDoc, <<>>)
        /\ UNCHANGED <<dlhub_id, steps, calls, keras, config, revoked, issued, held>>

\* registering files with a pipeline, making documents of the models with and
\* without simplified paths, and publishing the pipeline
NextFiles ==
    \/ \E k \in LogicalNames, p \in Paths : AddFile(Pipeline, k, p)
    \/ \E m \in Objs, s \in BOOLEAN : ToDict(m, s)
    \/ \E u \in Uuids, e \in PublishEnvs : publish_servable(Pipeline, u, e)

SpecFiles == Init /\ [][NextFiles]_vars

\* --------------------------------------------------------------- KerasModel
\* the last dimension of an output tensor; its shape is [None, width]
Widths == {1, 2}

\* a label group of output_names, such as 'y' or ['yes', 'no']
LabelGroups == {"y"}

\* a Python type: its module, its name, and the names of its base classes
DenseType == [module |-> "keras.layers.core", name |-> "Dense", bases |-> {"Layer", "object"}]
UserLayerType == [module |-> "mylayers", name |-> "Scale", bases |-> {"Layer", "object"}]
FloatType == [module |-> "builtins", name |-> "float", bases |-> {"object"}]
Types == {DenseType, UserLayerType, FloatType}

ObjectNames == {"Dense", "BadLayer"}

\* the type descriptor of one tensor
TensorSpec(width) ==
    [type |-> "ndarray", description |-> "Tensor", shape |-> <<None, width>>]

\* the descriptor of the outputs of a model: the tensor's own for one output,
\* a tuple with one element type per output tensor for several
format_layer_spec(widths) ==
    IF Len(widths) = 1
    THEN TensorSpec(widths[1])
    ELSE [ type |-> "tuple", description |-> "Tuple of tensors",
           element_types |-> [i \in DOMAIN widths |-> TensorSpec(widths[i])] ]

\* the bug of registering the object before its type is looked at
register_unchecked(table, name, custom_object) ==
    [ raised |-> IF "Layer" \in custom_object.bases THEN "none" ELSE "ValueError",
      message |-> IF "Layer" \in custom_object.bases THEN <<>>
                  ELSE <<"Custom", "object", "is", "not", "a", "subclass", "of", "Layer">>,
      table |-> SetKey(table, name, custom_object.module \o "." \o custom_object.name) ]

\* add_custom_object(name, custom_object) on the table of custom objects: a
\* type that is no subclass of Layer is refused, another is recorded by name
\* as module.name
register_custom_object(table, name, custom_object) ==
    IF "Layer" \notin custom_object.bases
    THEN [ raised |-> "ValueError",
           message |-> <<"Custom", "object", "is", "not", "a", "subclass", "of", "Layer">>,
           table |-> table ]
    ELSE [ raised |-> "none", message |-> <<>>,
           table |-> SetKey(table, name, custom_object.module \o "." \o custom_object.name) ]

\* the bug of counting the label groups only for a model of several outputs
create_model_multi_only(widths, output_names, custom_objects) ==
    IF Len(widths) > 1 /\ Len(output_names) # Len(widths)
    THEN [raised |-> "ArityError", model |-> NoModel]
    ELSE [ raised |-> "none",
           model |-> [ output |-> format_layer_spec(widths),
                       classes |-> output_names,
                       custom_objects |-> custom_objects ] ]

\* KerasModel.create_model(model_path, output_names, custom_objects=None) for
\* a model file whose output tensors have the given widths: one label group
\* per output tensor is required
create_model(widths, output_names, custom_objects) ==
    IF Len(output_names) # Len(widths)
    THEN [raised |-> "ArityError", model |-> NoModel]
    ELSE [ raised |-> "none",
           model |-> [ output |-> format_layer_spec(widths),
                       classes |-> output_names,
                       custom_objects |-> custom_objects ] ]

\* the custom_objects argument of create_model, as the table it leaves
CustomObjectArgs == {<<>>, [Dense |-> "keras.layers.core.Dense"]}

CreateModel(widths, output_names, custom_objects) ==
    LET r == create_model(widths, output_names, custom_objects)
    IN  /\ keras' = IF r.raised = "none" THEN r.model ELSE keras
        /\ last' = [Outcome("create_model", Servable, r.raised, None, NoDoc, <<>>)
                       EXCEPT !.args = [ n_outputs |-> Len(widths),
                                         n_labels |-> Len(output_names) ]]
        /\ UNCHANGED <<dlhub_id, files, steps, calls, config, revoked, issued, held>>

AddCustomObject(name, custom_object) ==
    /\ keras # NoModel
    /\ LET r == register_custom_object(keras.custom_objects, name, custom_object)
       IN  /\ keras' = [keras EXCEPT !.custom_objects = r.table]
           /\ last' = [Outcome("add_custom_object", Servable, r.raised, None, NoDoc, <<>>)
                          EXCEPT !.args = [name |-> name, custom_object |-> custom_object],
                                 !.message = r.message]
           /\ UNCHANGED <<dlhub_id, files, steps, calls, config, revoked, issued, held>>

\* describing trained models of one or more outputs, with custom objects
NextKeras ==
    \/ \E w \in SeqsUpTo(Widths, MaxOutputs),
          n \in SeqsUpTo(LabelGroups, MaxOutputs + 1) \cup {<<>>},
          c \in CustomObjectArgs : CreateModel(w, n, c)
    \/ \E n \in ObjectNames, t \in Types : AddCustomObject(n, t)

SpecKeras == Init /\ [][NextKeras]_vars

\* ------------------------------------------------------- login and logout
\* the token responses oauth2_exchange_code_for_tokens hands out, one after
\* the other
RtNames == <<"rt1", "rt2", "rt3", "rt4", "rt5">>
AtNames == <<"at1", "at2", "at3", "at4", "at5">>
ExpiresNames == <<"exp1", "exp2", "exp3", "exp4", "exp5">>

TokenResponse(n) ==
    [ refresh_token |-> RtNames[n], access_token |-> AtNames[n],
      expires_at_seconds |-> ExpiresNames[n] ]

\* config.lookup_option, write_option, remove_option on the stored options
lookup_option(cfg, opt) == cfg[opt]

write_option(cfg, opt, value) == [cfg EXCEPT ![opt] = value]

remove_option(cfg, opt) == [cfg EXCEPT ![opt] = None]

\* what native_client.oauth2_revoke_token(token) can do: revoke the token,
\* fail with globus_sdk.NetworkError, or fail with another error
RevokeOutcomes == {"ok", "network_error", "api_error"}

\* the bug of removing the token from the configuration before it is revoked
LogoutTokenRemoveFirst(token_opt, st, outcome) ==
    LET token == lookup_option(st.config, token_opt)
        removed == remove_option(st.config, token_opt)
    IN  IF st.stopped THEN st
        ELSE IF token = None
        THEN [st EXCEPT !.trace = Append(@, "warning:" \o token_opt)]
        ELSE IF outcome = "network_error"
        THEN [st EXCEPT !.stopped = TRUE, !.config = removed,
                        !.trace = @ \o <<"remove:" \o token_opt,
                                         "revoke:" \o token_opt \o ":network_error">>]
        ELSE IF outcome = "api_error"
        THEN [st EXCEPT !.stopped = TRUE, !.raised = "GlobusAPIError",
                        !.config = removed,
                        !.trace = @ \o <<"remove:" \o token_opt,
                                         "revoke:" \o token_opt \o ":api_error">>]
        ELSE [st EXCEPT !.revoked = @ \cup {token}, !.config = removed,
                        !.trace = @ \o <<"remove:" \o token_opt, "revoke:" \o token_opt>>]

\* logout, lines 221-239: one round of the loop over the token options; st is
\* the state of the call so far, stopped once the call has returned or raised
LogoutToken(token_opt, st, outcome) ==
    LET token == lookup_option(st.config, token_opt)
    IN  IF st.stopped THEN st
        ELSE IF token = None
        THEN [st EXCEPT !.trace = Append(@, "warning:" \o token_opt)]
        ELSE IF outcome = "network_error"
        THEN [st EXCEPT !.stopped = TRUE,
                        !.trace = Append(@, "revoke:" \o token_opt \o ":network_error")]
        ELSE IF outcome = "api_error"
        THEN [st EXCEPT !.stopped = TRUE, !.raised = "GlobusAPIError",
                        !.trace = Append(@, "revoke:" \o token_opt \o ":api_error")]
        ELSE [st EXCEPT !.revoked = @ \cup {token},
                        !.config = remove_option(@, token_opt),
                        !.trace = @ \o <<"revoke:" \o token_opt, "remove:" \o token_opt>>]

\* logout, lines 210-246: both rounds, then the expiry time is removed
logout(cfg, rev, rt_outcome, at_outcome) ==
    LET st0 == [config |-> cfg, revoked |-> rev, raised |-> "none",
                stopped |-> FALSE, trace |-> <<>>]
        st1 == LogoutToken(DLHUB_RT_OPTNAME, st0, rt_outcome)
        st2 == LogoutToken(DLHUB_AT_OPTNAME, st1, at_outcome)
    IN  IF st2.stopped THEN st2
        ELSE [st2 EXCEPT !.config = remove_option(@, DLHUB_AT_EXPIRES_OPTNAME),
                         !.trace = Append(@, "remove:" \o DLHUB_AT_EXPIRES_OPTNAME)]

\* client.logout()
Logout(rt_outcome, at_outcome) ==
    LET r == logout(config, revoked, rt_outcome, at_outcome)
    IN  /\ config' = r.config
        /\ revoked' = r.revoked
        /\ last' = [Outcome("logout", "client", r.raised, None, NoDoc, r.trace)
                       EXCEPT !.args = [config |-> config]]
        /\ UNCHANGED <<dlhub_id, files, steps, calls, keras, issued, held>>

\* _revoke_current_tokens, lines 178-181: one round of the loop. The call of
\* line 181 names a method the auth client does not have (aotuh2_revoke_token),
\* so it raises AttributeError and revokes nothing.
RevokeCurrentToken(token_opt, st) ==
    LET token == lookup_option(st.config, token_opt)
    IN  IF st.stopped \/ token = None THEN st
        ELSE [st EXCEPT !.stopped = TRUE, !.raised = "AttributeError",
                        !.trace = Append(@, "aotuh2_revoke_token:" \o token_opt)]

\* _revoke_current_tokens(native_client)
revoke_current_tokens(st) ==
    RevokeCurrentToken(DLHUB_AT_OPTNAME, RevokeCurrentToken(DLHUB_RT_OPTNAME, st))

\* _store_config(token_response), lines 173-175
store_config(cfg, tkn) ==
    write_option(
        write_option(
            write_option(cfg, DLHUB_RT_OPTNAME, tkn.refresh_token),
            DLHUB_AT_OPTNAME, tkn.access_token),
        DLHUB_AT_EXPIRES_OPTNAME, tkn.expires_at_seconds)

\* what oauth2_exchange_code_for_tokens(auth_code) can do
ExchangeOutcomes == {"ok", "error"}

\* _do_login_flow, lines 190-208: the code is exchanged for tokens (the n-th
\* token response), the stored tokens are revoked, the new ones are stored
do_login_flow(cfg, rev, n, exchange) ==
    LET st0 == [config |-> cfg, revoked |-> rev, raised |-> "none",
                stopped |-> FALSE, trace |-> <<"exchange">>, issued |-> n]
        st1 == revoke_current_tokens(st0)
    IN  IF exchange # "ok"
        THEN [st0 EXCEPT !.raised = "AuthAPIError", !.stopped = TRUE,
                         !.trace = <<"exchange:error">>, !.issued = n - 1]
        ELSE IF st1.stopped THEN st1
        ELSE [st1 EXCEPT !.config = store_config(@, TokenResponse(n)),
                         !.trace = Append(@, "store_config")]

\* config.check_logged_in(): a refresh token is stored and still active
check_logged_in(cfg, active) == lookup_option(cfg, DLHUB_RT_OPTNAME) # None /\ active

\* login(force), lines 255-259
login(cfg, rev, n, force, active, exchange) ==
    IF ~force /\ check_logged_in(cfg, active)
    THEN [config |-> cfg, revoked |-> rev, raised |-> "none", stopped |-> TRUE,
          trace |-> <<"already_logged_in">>, issued |-> n - 1]
    ELSE do_login_flow(cfg, rev, n, exchange)

\* client.login(force)
Login(force, active, exchange) ==
    /\ issued < NumLogins
    /\ LET r == login(config, revoked, issued + 1, force, active, exchange)
       IN  /\ config' = r.config
           /\ revoked' = r.revoked
           /\ issued' = r.issued
           /\ last' = [Outcome("login", "client", r.raised, None, NoDoc, r.trace)
                          EXCEPT !.args = [config |-> config, force |-> force,
                                           exchange |-> exchange,
                                           token_response |-> TokenResponse(issued + 1)]]
           /\ UNCHANGED <<dlhub_id, files, steps, calls, keras, held>>

\* logging in and out, with every outcome of the calls to the auth service
NextAuth ==
    \/ \E f \in BOOLEAN, a \in BOOLEAN, x \in ExchangeOutcomes : Login(f, a, x)
    \/ \E r \in RevokeOutcomes, a \in RevokeOutcomes : Logout(r, a)

SpecAuth == Init /\ [][NextAuth]_vars

\* ------------------------------------------------------------------- claims
StageEvents == {"stage_data", "get_zip_file", "get_zip_file:error", "put", "put:error",
                "unlink", "unlink:error"}
PostEvents == {"post", "post:error"}
FailedStageEvents == {"get_zip_file:error", "put:error", "unlink:error"}

CountIn(t, S) == Cardinality({i \in DOMAIN t : t[i] \in S})

IndexOf(t, e) == CHOOSE i \in DOMAIN t : t[i] = e

\* C1: publish_servable gives the model an identifier if and only if it has
\* none when the call is made; a model that has one keeps it, call after call.
C1_PublishAssignsOnlyIfAbsent ==
    last.op = "publish" =>
        /\ last.before = None => dlhub_id[last.obj] \in Uuids
        /\ last.before # None => dlhub_id[last.obj] = last.before

\* a model that had an identifier was published again, successfully
C1_Witness ==
    /\ last.op = "publish"
    /\ last.raised = "none"
    /\ last.before \in Uuids
    /\ dlhub_id[last.obj] = last.before

\* C2: a step added from a model instance holds the identifier the instance
\* had at the add_step call, in the pipeline and in every document made from
\* it, whatever happens to the instance afterwards.
C2_StepKeepsIdentifier ==
    /\ Len(steps) = Len(calls)
    /\ \A i \in DOMAIN calls : steps[i].dlhub_id = calls[i].seen
    /\ (last.op = "to_dict" /\ last.obj = Pipeline) =>
          /\ Len(last.doc.pipeline.steps) = Len(calls)
          /\ \A i \in DOMAIN calls : last.doc.pipeline.steps[i].dlhub_id = calls[i].seen

\* the first step came from a model instance whose identifier has changed
\* since, another step was added, and the pipeline document was made
C2_Witness ==
    /\ Len(calls) >= 2
    /\ calls[1].identifier.kind = "model"
    /\ calls[1].seen \in Uuids
    /\ dlhub_id[calls[1].identifier.ref] \in Uuids \ {calls[1].seen}
    /\ last.op = "to_dict"
    /\ last.obj = Pipeline

\* C3: every step of the pipeline has a UUID string as its identifier, never
\* None, also when it was added from a model instance without identifier.
C3_EveryStepHasUuid ==
    \A i \in DOMAIN steps : steps[i].dlhub_id \in Uuids

\* C4: publish_servable validates before it stages or submits; a failed
\* validation means nothing is staged and nothing is submitted; a successful
\* publish has staged once and then submitted once.
C4_ValidateThenStageThenSubmit ==
    last.op = "publish" =>
        LET t == last.trace
        IN  /\ last.raised = "ValidationError" =>
                  /\ CountIn(t, StageEvents \cup PostEvents) = 0
                  /\ last.doc = NoDoc
            /\ \A i \in DOMAIN t :
                  t[i] \in StageEvents \cup PostEvents =>
                      \E j \in 1..(i - 1) : t[j] = "validate"
            /\ last.raised = "none" =>
                  /\ Count(t, "validate") = 1
                  /\ Count(t, "stage_data") = 1
                  /\ CountIn(t, {"get_zip_file", "get_zip_file:error"}) = 1
                  /\ CountIn(t, {"put", "put:error"}) <= 1
                  /\ CountIn(t, PostEvents) = 1
                  /\ IndexOf(t, "stage_data") < IndexOf(t, "post")
                  /\ t[Len(t)] = "post"

\* a publish went through: validated, staged, submitted
C4_Witness ==
    /\ last.op = "publish"
    /\ last.raised = "none"
    /\ last.trace = <<"validate", "stage_data", "get_zip_file", "put", "unlink", "post">>

\* C5: publish_servable returns a task identifier after submitting a document
\* whose dlhub.transfer_method holds the URI staging produced, or it fails;
\* when staging fails, no document is submitted.
C5_TaskIdOrError ==
    last.op = "publish" =>
        /\ last.raised = "none" =>
              /\ last.ret \in TaskIds
              /\ last.doc.dlhub.transfer_method.S3 \in {StagedPath(d) : d \in DestUuids}
        /\ CountIn(last.trace, FailedStageEvents) > 0 =>
              /\ CountIn(last.trace, PostEvents) = 0
              /\ last.doc = NoDoc

\* C7: assign_uuid() on a model that has an identifier fails with an identity
\* error and leaves the identifier as it was.
C7_SecondAssignFails ==
    (last.op = "assign_uuid" /\ last.before # None) =>
        /\ last.raised = "IdentityError"
        /\ dlhub_id[last.obj] = last.before

\* assign_uuid() was called on a model with an identifier
C7_Witness ==
    /\ last.op = "assign_uuid"
    /\ last.before \in Uuids
    /\ last.raised = "IdentityError"

\* C8: the pipeline's document is the base model's document with the resource
\* type set to InteractiveResource and a pipeline.steps section added, the
\* steps in the order of the add_step calls, each with dlhub_id, description,
\* and parameters only if the call gave them.
C8_PipelineDocument ==
    (last.op = "to_dict" /\ last.obj = Pipeline) =>
        LET doc == last.doc
            base == BaseToDict(Pipeline, dlhub_id[Pipeline], files[Pipeline], last.simplify)
        IN  /\ DOMAIN doc = DOMAIN base \cup {"pipeline"}
            /\ doc.dlhub = base.dlhub
            /\ doc.datacite =
                  [base.datacite EXCEPT
                      !.resourceType = [resourceTypeGeneral |-> "InteractiveResource"]]
            /\ DOMAIN doc.pipeline = {"steps"}
            /\ DOMAIN doc.pipeline.steps = DOMAIN calls
            /\ \A i \in DOMAIN calls :
                  LET st == doc.pipeline.steps[i]
                      c == calls[i]
                  IN  /\ st.dlhub_id = c.seen
                      /\ st.description = c.description
                      /\ IF c.parameters = None
                         THEN DOMAIN st = {"dlhub_id", "description"}
                         ELSE /\ DOMAIN st = {"dlhub_id", "description", "parameters"}
                              /\ st.parameters = c.parameters

\* the document of a pipeline of two different steps, one with parameters and
\* one without
C8_Witness ==
    /\ last.op = "to_dict"
    /\ last.obj = Pipeline
    /\ Len(calls) = 2
    /\ calls[1].seen # calls[2].seen
    /\ calls[1].parameters = None
    /\ calls[2].parameters # None

\* q is the basename of p: q has no "/", and p is q, or q after a part that
\* ends with "/"
IsBasenameOf(q, p) ==
    /\ "/" \notin Range(q)
    /\ Len(q) <= Len(p)
    /\ SubSeq(p, Len(p) - Len(q) + 1, Len(p)) = q
    /\ Len(q) < Len(p) => p[Len(p) - Len(q)] = "/"

\* C6: to_dict(simplify_paths=True), called directly, by publish_servable or
\* through PipelineModel.to_dict, returns a document whose file paths are the
\* basenames of the model's paths, and leaves the model's own table alone.
C6_SimplifiedPathsAreBasenames ==
    [][ ((last'.op = "to_dict" /\ last'.simplify) \/ last'.op = "publish") =>
            /\ files' = files
            /\ last'.doc # NoDoc =>
                  LET out == last'.doc.dlhub.files
                      live == files[last'.obj]
                  IN  /\ DOMAIN out = DOMAIN live
                      /\ \A k \in DOMAIN live : IsBasenameOf(out[k], live[k]) ]_vars

\* the document of a pipeline with a file in a directory, with simplified
\* paths: the path of the document is no longer the path of the model
C6_Witness ==
    /\ last.op = "to_dict"
    /\ last.simplify
    /\ last.obj = Pipeline
    /\ \E k \in DOMAIN files[Pipeline] :
          /\ "/" \in Range(files[Pipeline][k])
          /\ last.doc.dlhub.files[k] # files[Pipeline][k]

\* C9: create_model succeeds exactly when there is one label group per output
\* tensor, and fails with an arity error otherwise, also for one output with
\* several labels; for k > 1 outputs the run method's output is a 'tuple' of
\* exactly k element types.
C9_LabelGroupsMatchOutputs ==
    last.op = "create_model" =>
        LET k == last.args.n_outputs
            n == last.args.n_labels
        IN  /\ last.raised = "none" <=> n = k
            /\ last.raised # "none" => last.raised = "ArityError"
            /\ (last.raised = "none" /\ k > 1) =>
                  /\ keras.output.type = "tuple"
                  /\ Len(keras.output.element_types) = k
            /\ (last.raised = "none" /\ k = 1) => keras.output.type = "ndarray"

\* a model of several outputs was described
C9_Witness ==
    /\ last.op = "create_model"
    /\ last.raised = "none"
    /\ last.args.n_outputs > 1
    /\ keras.output.type = "tuple"

\* C10: add_custom_object with a type that is no subclass of the expected
\* base type fails with a message that says 'subclass' and leaves the recorded
\* custom objects as they were; a valid one is recorded under its name.
C10_CustomObjectChecked ==
    [][ last'.op = "add_custom_object" =>
            LET t == last'.args.custom_object
                n == last'.args.name
            IN  IF "Layer" \in t.bases
                THEN /\ last'.raised = "none"
                     /\ n \in DOMAIN keras'.custom_objects
                     /\ keras'.custom_objects[n] = t.module \o "." \o t.name
                     /\ \A o \in DOMAIN keras.custom_objects \ {n} :
                           /\ o \in DOMAIN keras'.custom_objects
                           /\ keras'.custom_objects[o] = keras.custom_objects[o]
                ELSE /\ last'.raised # "none"
                     /\ "subclass" \in Range(last'.message)
                     /\ keras'.custom_objects = keras.custom_objects ]_vars

\* add_custom_object('BadLayer', float) was refused on a model that has a
\* custom object
C10_Witness ==
    /\ last.op = "add_custom_object"
    /\ last.args.custom_object = FloatType
    /\ last.args.name = "BadLayer"
    /\ last.raised = "ValueError"
    /\ keras.custom_objects = [Dense |-> "keras.layers.core.Dense"]

StoredTokens(cfg) == {cfg[o] : o \in {DLHUB_RT_OPTNAME, DLHUB_AT_OPTNAME}} \ {None}

Before(t, a, b) ==
    \E i, j \in DOMAIN t : i < j /\ t[i] = a /\ t[j] = b

\* C11: logout removes a stored token from the configuration only after the
\* revocation of that token succeeded; when a revocation fails with a network
\* error, logout stops there, and that token, the tokens not yet processed and
\* the expiry time stay in the configuration.
C11_LogoutRemovesOnlyRevoked ==
    last.op = "logout" =>
        LET c0 == last.args.config
            t == last.trace
            failed(o) == "revoke:" \o o \o ":network_error"
        IN  /\ \A o \in {DLHUB_RT_OPTNAME, DLHUB_AT_OPTNAME} :
                  /\ config[o] \in {c0[o], None}
                  /\ (c0[o] # None /\ config[o] = None) =>
                        /\ c0[o] \in revoked
                        /\ Before(t, "revoke:" \o o, "remove:" \o o)
                  /\ failed(o) \in Range(t) =>
                        /\ t[Len(t)] = failed(o)
                        /\ last.raised = "none"
                        /\ config[o] = c0[o]
                        /\ config[DLHUB_AT_OPTNAME] = c0[DLHUB_AT_OPTNAME]
                        /\ config[DLHUB_AT_EXPIRES_OPTNAME] = c0[DLHUB_AT_EXPIRES_OPTNAME]

\* the refresh token was revoked and removed, then the revocation of the
\* access token failed with a network error: it and the expiry time are kept
C11_Witness ==
    /\ last.op = "logout"
    /\ last.trace[Len(last.trace)] = "revoke:" \o DLHUB_AT_OPTNAME \o ":network_error"
    /\ last.args.config[DLHUB_RT_OPTNAME] # None
    /\ config[DLHUB_RT_OPTNAME] = None
    /\ config[DLHUB_AT_OPTNAME] # None
    /\ config[DLHUB_AT_EXPIRES_OPTNAME] # None

\* C12: login(force=True) with a refresh or access token stored goes through:
\* the stored tokens are revoked, and the refresh token, access token and
\* expiry time of the code exchange are stored.
C12_ForcedLoginReplacesTokens ==
    ( /\ last.op = "login"
      /\ last.args.force
      /\ last.args.exchange = "ok"
      /\ StoredTokens(last.args.config) # {} ) =>
        /\ last.raised = "none"
        /\ StoredTokens(last.args.config) \subseteq revoked
        /\ config = store_config(last.args.config, last.args.token_response)

\* C13: _stage_data lets no exception of the zipping or the upload out (it
\* prints the error and returns), and the temporary zip file is gone after
\* every call, also when get_zip_file failed before it created the file.
C13_StageDataSwallowsAndCleans ==
    last.op = "stage_data" =>
        /\ last.raised = "none"
        /\ ~last.args.zip_exists

\* C14: a document returned by PipelineModel.to_dict shares nothing with the
\* model: an add_step after the call leaves the steps of the document as they
\* were returned, and a change of the document's pipeline.steps leaves the
\* steps of the model those of its add_step calls.
C14_DocumentIsSnapshot ==
    held # NoDoc =>
        /\ HeldSteps = held.returned_steps
        /\ steps = [i \in DOMAIN calls |->
                       StepBlock(calls[i].seen, calls[i].description, calls[i].parameters)]

====
